---- MODULE Spec2Model ----
(***************************************************************************)
(* A model of pastas/utils.py: the logging-handler helpers (a state        *)
(* machine over the handler list of the 'pastas' logger) and the pure      *)
(* functions frequency_is_supported, get_stress_dt, get_dt, get_sample and *)
(* timestep_weighted_resample, each applied to inputs drawn from bounded   *)
(* sets.                                                                   *)
(***************************************************************************)
EXTENDS Integers, Sequences, FiniteSets, TLC

VARIABLES
    handlers,   \* logger.handlers of logging.getLogger('pastas'), in list order
    level,      \* logger.level
    lastCall,   \* the helper that returned last ("" before any call)
    freq,       \* the frequency string handed to the frequency functions
    fcall,      \* the frequency function that was applied ("" before the call)
    fret,       \* its outcome
    tindex,     \* get_sample's tindex, a sequence of timestamps (asi8)
    ref_tindex, \* get_sample's ref_tindex
    sample,     \* the outcome of get_sample(tindex, ref_tindex)
    series,     \* timestep_weighted_resample's series: rows [t, v], t its index
    new_tindex, \* timestep_weighted_resample's tindex
    resampled   \* the outcome of timestep_weighted_resample(series, new_tindex)

logvars == <<handlers, level, lastCall>>

freqvars == <<freq, fcall, fret>>

samplevars == <<tindex, ref_tindex, sample>>

resamplevars == <<series, new_tindex, resampled>>

notlogvars == <<freqvars, samplevars, resamplevars>>

notfreqvars == <<logvars, samplevars, resamplevars>>

notsamplevars == <<logvars, freqvars, resamplevars>>

notresamplevars == <<logvars, freqvars, samplevars>>

vars == <<logvars, freqvars, samplevars, resamplevars>>

\* The outcome of a call that has not been made.
NoCall == [kind |-> "none"]

----------------------------------------------------------------------------
(* Bounds of the model.                                                    *)

\* add_file_handlers is not called once the logger holds this many handlers.
MaxHandlers == 6

\* The largest multiplier written in a frequency string.
MaxMult == 3

\* Timestamps are the integers 0..MaxTime.
MaxTime == 3

\* The longest tindex and the longest ref_tindex handed to get_sample.
MaxDense == 3

MaxRef == 2

\* The longest series and the longest new index handed to
\* timestep_weighted_resample.
MaxSeries == 3

\* The width in bits of the significand of the floating-point numbers of the
\* model (a float64 has 53).
Prec == 4

----------------------------------------------------------------------------
(* The logging helpers, utils.py lines 282-394.                            *)

Levels == {"DEBUG", "INFO", "ERROR"}

\* isinstance(handler, cls) for the two handler classes the module creates:
\* handlers.RotatingFileHandler derives from logging.StreamHandler (through
\* BaseRotatingHandler and FileHandler).
IsInstance(handler, cls) ==
    IF cls = "StreamHandler"
    THEN handler.cls \in {"StreamHandler", "RotatingFileHandler"}
    ELSE handler.cls = cls

\* list.remove of the element the iterator is at: handlers are compared by
\* identity and a logger never holds the same handler twice.
RemoveAt(hs, i) == SubSeq(hs, 1, i - 1) \o SubSeq(hs, i + 1, Len(hs))

\* for handler in logger.handlers: if isinstance(handler, cls):
\*     logger.removeHandler(handler)
\* The loop iterates over the very list removeHandler removes from: the list
\* iterator keeps a position, so after a removal at position i the element
\* that moved into position i is not visited.
RECURSIVE RemoveLoop(_, _, _)
RemoveLoop(hs, i, cls) ==
    IF i > Len(hs) THEN hs
    ELSE IF IsInstance(hs[i], cls)
         THEN RemoveLoop(RemoveAt(hs, i), i + 1, cls)
         ELSE RemoveLoop(hs, i + 1, cls)

remove_console_handler_hs(hs) == RemoveLoop(hs, 1, "StreamHandler")

remove_file_handlers_hs(hs) == RemoveLoop(hs, 1, "RotatingFileHandler")

set_console_handler_hs(hs, lvl) ==
    Append(remove_console_handler_hs(hs), [cls |-> "StreamHandler", level |-> lvl])

add_file_handlers_hs(hs) ==
    hs \o << [cls |-> "RotatingFileHandler", level |-> "INFO"],
             [cls |-> "RotatingFileHandler", level |-> "ERROR"] >>

initialize_logger ==
    \E lvl \in Levels :
        /\ level' = lvl
        /\ handlers' = set_console_handler_hs(remove_file_handlers_hs(handlers), "INFO")
        /\ lastCall' = "initialize_logger"
        /\ UNCHANGED notlogvars

set_console_handler ==
    \E lvl \in Levels :
        /\ handlers' = set_console_handler_hs(handlers, lvl)
        /\ lastCall' = "set_console_handler"
        /\ UNCHANGED <<level, notlogvars>>

set_log_level ==
    \E lvl \in Levels :
        /\ handlers' = set_console_handler_hs(handlers, lvl)
        /\ lastCall' = "set_log_level"
        /\ UNCHANGED <<level, notlogvars>>

remove_console_handler ==
    /\ handlers' = remove_console_handler_hs(handlers)
    /\ lastCall' = "remove_console_handler"
    /\ UNCHANGED <<level, notlogvars>>

add_file_handlers ==
    /\ Len(handlers) + 2 <= MaxHandlers
    /\ handlers' = add_file_handlers_hs(handlers)
    /\ lastCall' = "add_file_handlers"
    /\ UNCHANGED <<level, notlogvars>>

remove_file_handlers ==
    /\ handlers' = remove_file_handlers_hs(handlers)
    /\ lastCall' = "remove_file_handlers"
    /\ UNCHANGED <<level, notlogvars>>

----------------------------------------------------------------------------
(* Frequency strings, utils.py lines 11-122.  A frequency string is the    *)
(* sequence of its tokens: <<code>> ("W") or <<n, code>> ("7D").           *)

\* Offset aliases with a fixed duration: pandas parses them to a Tick
\* (Day, Hour, Minute, Second, Milli, Micro, Nano), the offsets with .delta.
TickCodes == {"D", "H", "T", "min", "S", "L", "ms", "U", "us", "N", "ns"}

\* The calendar aliases get_stress_dt lists, lines 80-98.
YearCodes == {"A", "Y", "AS", "YS", "BA", "BY", "BAS", "BYS"}

QuarterCodes == {"BQ", "BQS", "Q", "QS"}

MonthCodes == {"BM", "BMS", "CBM", "CBMS", "M", "MS"}

SemiMonthCodes == {"SM", "SMS"}

WeekCodes == {"W"}

DayCodes == {"B", "C"}

HourCodes == {"BH", "CBH"}

CalendarCodes ==
    YearCodes \cup QuarterCodes \cup MonthCodes \cup SemiMonthCodes
        \cup WeekCodes \cup DayCodes \cup HourCodes

\* "X" stands for a code pandas does not know.
Codes == TickCodes \cup CalendarCodes \cup {"X"}

FreqStrings ==
    {<<c>> : c \in Codes} \cup {<<n, c>> : n \in 1..MaxMult, c \in Codes}

CodeOf(f) == f[Len(f)]

MultOf(f) == IF Len(f) = 1 THEN 1 ELSE f[1]

\* offset.name (the rule code) of the offset pandas builds for an alias, in
\* the pandas releases that still have Index.get_values (line 199).
\* Tick aliases are normalised; an alias of an anchored offset (week, quarter,
\* year, semi-month) is completed with its default anchor, which is part of
\* the name: to_offset('W') is Week(weekday=6), named 'W-SUN'.
OffsetName(code) ==
    CASE code \in {"T", "min"} -> "T"
      [] code \in {"L", "ms"} -> "L"
      [] code \in {"U", "us"} -> "U"
      [] code \in {"N", "ns"} -> "N"
      [] code = "W" -> "W-SUN"
      [] code = "Q" -> "Q-DEC"
      [] code = "QS" -> "QS-JAN"
      [] code = "BQ" -> "BQ-DEC"
      [] code = "BQS" -> "BQS-JAN"
      [] code \in {"A", "Y"} -> "A-DEC"
      [] code \in {"AS", "YS"} -> "AS-JAN"
      [] code \in {"BA", "BY"} -> "BA-DEC"
      [] code \in {"BAS", "BYS"} -> "BAS-JAN"
      [] code = "SM" -> "SM-15"
      [] code = "SMS" -> "SMS-15"
      [] OTHER -> code

\* to_offset(freq): raises ValueError for a code it does not know.
to_offset(f) ==
    IF CodeOf(f) = "X"
    THEN [kind |-> "raise", exc |-> "ValueError"]
    ELSE [kind |-> "offset",
          n |-> MultOf(f),
          name |-> OffsetName(CodeOf(f)),
          tick |-> CodeOf(f) \in TickCodes]

\* hasattr(offset, 'delta')
HasDelta(offset) == offset.tick

\* A number of days as the fraction num / (den * 1000^milli).
Days(num, den, milli) == [num |-> num, den |-> den, milli |-> milli]

\* offset.delta / Timedelta(1, "D") of a Tick.
DeltaDays(offset) ==
    CASE offset.name = "D" -> Days(offset.n, 1, 0)
      [] offset.name = "H" -> Days(offset.n, 24, 0)
      [] offset.name = "T" -> Days(offset.n, 1440, 0)
      [] offset.name = "S" -> Days(offset.n, 86400, 0)
      [] offset.name = "L" -> Days(offset.n, 86400, 1)
      [] offset.name = "U" -> Days(offset.n, 86400, 2)
      [] offset.name = "N" -> Days(offset.n, 86400, 3)

Return(v) == [kind |-> "return", value |-> v]

Raise(e) == [kind |-> "raise", exc |-> e]

\* lines 39-47.  An offset without .delta is logged and the argument is
\* returned as it came.
frequency_is_supported(f) ==
    LET offset == to_offset(f) IN
    IF offset.kind = "raise" THEN offset
    ELSE IF ~HasDelta(offset) THEN Return(f)
    ELSE IF offset.n = 1 THEN Return(<<offset.name>>)
    ELSE Return(<<offset.n, offset.name>>)

\* lines 74-104.
get_stress_dt(f) ==
    LET offset == to_offset(f) IN
    IF offset.kind = "raise" THEN offset
    ELSE IF HasDelta(offset) THEN Return(DeltaDays(offset))
    ELSE LET num == offset.n
             name == offset.name
         IN  IF name \in YearCodes THEN Return(Days(num * 365, 1, 0))
             ELSE IF name \in QuarterCodes THEN Return(Days(num * 90, 1, 0))
             ELSE IF name \in MonthCodes THEN Return(Days(num * 30, 1, 0))
             ELSE IF name \in SemiMonthCodes THEN Return(Days(num * 15, 1, 0))
             ELSE IF name \in WeekCodes THEN Return(Days(num * 7, 1, 0))
             ELSE IF name \in DayCodes THEN Return(Days(num, 1, 0))
             ELSE IF name \in HourCodes THEN Return(Days(num * 1, 24, 0))
             ELSE Raise("ValueError")

\* lines 120-122.
get_dt(f) ==
    LET offset == to_offset(f) IN
    IF offset.kind = "raise" THEN offset
    ELSE IF ~HasDelta(offset) THEN Raise("AttributeError")
    ELSE Return(DeltaDays(offset))

Call_frequency_is_supported ==
    /\ fcall = ""
    /\ fcall' = "frequency_is_supported"
    /\ fret' = frequency_is_supported(freq)
    /\ UNCHANGED <<freq, notfreqvars>>

Call_get_stress_dt ==
    /\ fcall = ""
    /\ fcall' = "get_stress_dt"
    /\ fret' = get_stress_dt(freq)
    /\ UNCHANGED <<freq, notfreqvars>>

Call_get_dt ==
    /\ fcall = ""
    /\ fcall' = "get_dt"
    /\ fret' = get_dt(freq)
    /\ UNCHANGED <<freq, notfreqvars>>

----------------------------------------------------------------------------
(* get_sample, utils.py lines 145-173.                                     *)

Times == 0..MaxTime

SeqsUpTo(S, n) == UNION {[1..k -> S] : k \in 0..n}

StrictlyIncreasing(x) == \A i \in 1..(Len(x) - 1) : x[i] < x[i + 1]

\* np.argsort(x): the positions of x in ascending order of their values,
\* equal values in the order they stand in.
Argsort(x) ==
    LET Before(i, j) == x[i] < x[j] \/ (x[i] = x[j] /\ i < j)
        Rank(i) == Cardinality({j \in 1..Len(x) : Before(j, i)}) + 1
    IN  [k \in 1..Len(x) |-> CHOOSE i \in 1..Len(x) : Rank(i) = k]

\* The lookup with the elements of xs themselves as the bounds.
Searchsorted_edges(xs, x_new) ==
    Cardinality({k \in 1..(Len(xs) - 1) : xs[k + 1] <= x_new})

\* np.searchsorted(x_bds, x_new, side='left') where x_bds[k] is the midpoint
\* (xs[k] + xs[k+1]) / 2 of the sorted xs: the number of midpoints below
\* x_new.  x_new is compared with a midpoint in doubled units, exactly:
\* interp1d holds the midpoints as float64, which is exact as long as the
\* int64 timestamps are (nanosecond counts that are multiples of 512 are).
Searchsorted(xs, x_new) ==
    Cardinality({k \in 1..(Len(xs) - 1) : xs[k] + xs[k + 1] < 2 * x_new})

\* x_new_indices.clip(0, len(x) - 1), as a position counted from 1.
Clip(idx, n) == (IF idx < 0 THEN 0 ELSE IF idx > n - 1 THEN n - 1 ELSE idx) + 1

\* interp1d(x, arange(x.size), kind='nearest', fill_value='extrapolate')
\* applied to x_new: interp1d sorts x (and y with it), then _call_nearest
\* looks x_new up among the midpoints and returns the y that stands there.
Nearest(x, x_new) ==
    LET ind == Argsort(x)
        xs == [k \in 1..Len(x) |-> x[ind[k]]]
    IN  ind[Clip(Searchsorted(xs, x_new), Len(x))]

\* np.unique: the sorted distinct elements.
RECURSIVE Unique(_)
Unique(S) ==
    IF S = {} THEN << >>
    ELSE LET m == CHOOSE a \in S : \A b \in S : a <= b
         IN  <<m>> \o Unique(S \ {m})

\* get_sample without np.unique.
get_sample_all(t, ref) ==
    IF Len(t) = 1 THEN Return(t)
    ELSE IF Len(t) = 0 THEN Raise("ValueError")
    ELSE Return([k \in 1..Len(ref) |-> t[Nearest(t, ref[k])]])

\* lines 166-173.  interp1d refuses an x without entries.
get_sample(t, ref) ==
    IF Len(t) = 1 THEN Return(t)
    ELSE IF Len(t) = 0 THEN Raise("ValueError")
    ELSE LET ind == Unique({Nearest(t, ref[k]) : k \in 1..Len(ref)})
         IN  Return([k \in 1..Len(ind) |-> t[ind[k]]])

Call_get_sample ==
    /\ sample = NoCall
    /\ sample' = get_sample(tindex, ref_tindex)
    /\ UNCHANGED <<tindex, ref_tindex, notsamplevars>>

----------------------------------------------------------------------------
(* Floating-point numbers.  A float is the fraction [n, d] it stands for, d *)
(* a power of two, in lowest terms; every operation computes the exact      *)
(* result and rounds it to Prec significant bits, to nearest, ties to even, *)
(* as IEEE 754 arithmetic does.  Only numbers >= 0 occur.                   *)

RECURSIVE Pow2(_)
Pow2(k) == IF k = 0 THEN 1 ELSE 2 * Pow2(k - 1)

RECURSIVE Reduce(_, _)
Reduce(n, d) ==
    IF n = 0 THEN [n |-> 0, d |-> 1]
    ELSE IF d > 1 /\ n % 2 = 0 THEN Reduce(n \div 2, d \div 2)
    ELSE [n |-> n, d |-> d]

\* The float nearest to num/den, for num >= 0 and den > 0: with e such that
\* 2^(Prec-1) <= num / (den * 2^e) < 2^Prec, the significand is that
\* quotient rounded to an integer and the float is significand * 2^e.
RoundRat(num, den) ==
    IF num = 0 THEN [n |-> 0, d |-> 1]
    ELSE LET Exps == (0 - 3 * Prec)..(3 * Prec)
             N(e) == IF e < 0 THEN num * Pow2(0 - e) ELSE num
             D(e) == IF e < 0 THEN den ELSE den * Pow2(e)
             e == CHOOSE x \in Exps :
                      /\ Pow2(Prec - 1) * D(x) <= N(x)
                      /\ N(x) < Pow2(Prec) * D(x)
             q == N(e) \div D(e)
             r == N(e) % D(e)
             m == IF 2 * r > D(e) \/ (2 * r = D(e) /\ q % 2 = 1) THEN q + 1 ELSE q
         IN  IF e < 0 THEN Reduce(m, Pow2(0 - e)) ELSE [n |-> m * Pow2(e), d |-> 1]

\* ndarray.astype(float) of an integer.
ToFloat(i) == RoundRat(i, 1)

FMul(a, b) == RoundRat(a.n * b.n, a.d * b.d)

FAdd(a, b) == RoundRat(a.n * b.d + b.n * a.d, a.d * b.d)

FDiv(a, b) == RoundRat(a.n * b.d, a.d * b.n)

FLeq(a, b) == a.n * b.d <= b.n * a.d

\* np.sum of a short array: the elements are added from left to right.
RECURSIVE FSum(_)
FSum(xs) ==
    IF Len(xs) = 0 THEN [n |-> 0, d |-> 1]
    ELSE FAdd(FSum(SubSeq(xs, 1, Len(xs) - 1)), xs[Len(xs)])

----------------------------------------------------------------------------
(* timestep_weighted_resample, utils.py lines 176-226.                     *)

\* The values a series holds.
Values == {1, 5, 7}

Rows == [t : Times, v : Values]

Index(s) == [i \in 1..Len(s) |-> s[i].t]

\* lines 199-202 and 206-209: dt = np.hstack((np.diff(te)[0], np.diff(te))),
\* for an index te of at least two elements.
Steps(te) == [i \in 1..Len(te) |-> IF i = 1 THEN te[2] - te[1] ELSE te[i] - te[i - 1]]

Starts(te) == [i \in 1..Len(te) |-> te[i] - Steps(te)[i]]

\* line 213: mask = (t0e > t1si) & (t0s < t1ei), as the positions it selects.
Mask(t0e, t1si, t1ei) ==
    {i \in 1..Len(t0e) : t0e[i] > t1si /\ Starts(t0e)[i] < t1ei}

SortedSeq(S) == Unique(S)

Max(a, b) == IF a > b THEN a ELSE b

Min(a, b) == IF a < b THEN a ELSE b

\* lines 216-223: the value of the new timestep (t1si, t1ei].
WeightedValue(s, t1si, t1ei) ==
    LET t0e == Index(s)
        sel == SortedSeq(Mask(t0e, t1si, t1ei))
        ts == [k \in 1..Len(sel) |-> Max(Starts(t0e)[sel[k]], t1si)]
        te == [k \in 1..Len(sel) |-> Min(t0e[sel[k]], t1ei)]
        dt == [k \in 1..Len(sel) |-> ToFloat(te[k] - ts[k])]
        prod == [k \in 1..Len(sel) |-> FMul(dt[k], ToFloat(s[sel[k]].v))]
    IN  FDiv(FSum(prod), FSum(dt))

\* Series(v1, index=tindex): pandas refuses values whose number differs from
\* the length of the index ("Length of passed values is 2, index implies 3").
NewSeries(v1, idx) ==
    IF Len(v1) = Len(idx)
    THEN Return([k \in 1..Len(idx) |-> [t |-> idx[k], v |-> v1[k]]])
    ELSE Raise("ValueError")

\* lines 198-226.  dt0[0] and dt1[0] raise IndexError when np.diff is
\* empty, which it is for an index of fewer than two elements.
timestep_weighted_resample(s, idx) ==
    IF Len(s) < 2 \/ Len(idx) < 2 THEN Raise("IndexError")
    ELSE LET t0e == Index(s)
             t1s == Starts(idx)
             kept == SortedSeq({j \in 1..Len(idx) : Mask(t0e, t1s[j], idx[j]) # {}})
             v1 == [k \in 1..Len(kept) |-> WeightedValue(s, t1s[kept[k]], idx[kept[k]])]
         IN  NewSeries(v1, idx)

Call_timestep_weighted_resample ==
    /\ resampled = NoCall
    /\ resampled' = timestep_weighted_resample(series, new_tindex)
    /\ UNCHANGED <<series, new_tindex, notresamplevars>>

LogIdle ==
    /\ handlers = << >>
    /\ level = "NOTSET"
    /\ lastCall = ""

FreqIdle ==
    /\ freq = << >>
    /\ fcall = ""
    /\ fret = NoCall

SampleIdle ==
    /\ tindex = << >>
    /\ ref_tindex = << >>
    /\ sample = NoCall

ResampleIdle ==
    /\ series = << >>
    /\ new_tindex = << >>
    /\ resampled = NoCall

Init == LogIdle /\ FreqIdle /\ SampleIdle /\ ResampleIdle

Next ==
    \/ initialize_logger
    \/ set_console_handler
    \/ set_log_level
    \/ remove_console_handler
    \/ add_file_handlers
    \/ remove_file_handlers

Spec == Init /\ [][Next]_vars

FreqInit ==
    /\ LogIdle
    /\ SampleIdle
    /\ ResampleIdle
    /\ freq \in FreqStrings
    /\ fcall = ""
    /\ fret = NoCall

FreqNext ==
    \/ Call_frequency_is_supported
    \/ Call_get_stress_dt
    \/ Call_get_dt

FreqSpec == FreqInit /\ [][FreqNext]_vars

SampleInit ==
    /\ LogIdle
    /\ FreqIdle
    /\ ResampleIdle
    /\ tindex \in SeqsUpTo(Times, MaxDense)
    /\ ref_tindex \in SeqsUpTo(Times, MaxRef)
    /\ sample = NoCall

SampleNext == Call_get_sample

SampleSpec == SampleInit /\ [][SampleNext]_vars

\* The series and the new index are strictly increasing, as a time series is.
ResampleInit ==
    /\ LogIdle
    /\ FreqIdle
    /\ SampleIdle
    /\ series \in {s \in SeqsUpTo(Rows, MaxSeries) : StrictlyIncreasing(Index(s))}
    /\ new_tindex \in {x \in SeqsUpTo(Times, MaxSeries) : StrictlyIncreasing(x)}
    /\ resampled = NoCall

ResampleNext == Call_timestep_weighted_resample

ResampleSpec == ResampleInit /\ [][ResampleNext]_vars

CountOf(hs, cls) == Cardinality({i \in 1..Len(hs) : hs[i].cls = cls})

\* C9: after remove_file_handlers returns, the logger holds no
\* RotatingFileHandler, whatever handlers it held before the call.
C9_NoFileHandlerAfterRemove ==
    lastCall = "remove_file_handlers" => CountOf(handlers, "RotatingFileHandler") = 0

\* C10: whenever a call of set_console_handler returns (directly, or as the
\* last step of set_log_level or initialize_logger), the logger holds exactly
\* one handler created by set_console_handler, a plain StreamHandler.
C10_OneConsoleHandler ==
    lastCall \in {"set_console_handler", "set_log_level", "initialize_logger"}
        => CountOf(handlers, "StreamHandler") = 1

\* The nominal day count of a calendar alias, as documented for
\* get_stress_dt: <<days, per>> is days/per.
NominalDays(code) ==
    CASE code \in YearCodes -> <<365, 1>>
      [] code \in QuarterCodes -> <<90, 1>>
      [] code \in MonthCodes -> <<30, 1>>
      [] code \in SemiMonthCodes -> <<15, 1>>
      [] code \in WeekCodes -> <<7, 1>>
      [] code \in DayCodes -> <<1, 1>>
      [] code \in HourCodes -> <<1, 24>>

\* Equality of two day counts as fractions.
SameDays(a, num, den) ==
    /\ a.milli = 0
    /\ a.num * den = num * a.den

\* C4: for a frequency whose unit has no fixed duration (or is unknown),
\* frequency_is_supported signals the failure: it raises, or what it returns
\* is not a frequency string like the canonical strings of supported ones.
C4_UnsupportedIsSignalled ==
    (fcall = "frequency_is_supported" /\ CodeOf(freq) \notin TickCodes)
        => (fret.kind = "raise" \/ fret.value \notin FreqStrings)

\* C8: for a calendar alias with multiplier n, get_stress_dt returns n times
\* the nominal day count of the alias's family, and raises nothing.
C8_ApproximateTable ==
    (fcall = "get_stress_dt" /\ CodeOf(freq) \in CalendarCodes)
        => /\ fret.kind = "return"
           /\ SameDays(fret.value, MultOf(freq) * NominalDays(CodeOf(freq))[1],
                       NominalDays(CodeOf(freq))[2])

Range(x) == {x[i] : i \in 1..Len(x)}

Dist(a, b) == IF a < b THEN b - a ELSE a - b

\* C5 as claimed: for a non-empty strictly increasing tindex and any
\* ref_tindex, the sample holds only elements of tindex, is strictly
\* increasing and is no longer than ref_tindex.
C5_SubsequenceNoLongerThanRef ==
    (sample # NoCall /\ Len(tindex) >= 1 /\ StrictlyIncreasing(tindex))
        => /\ sample.kind = "return"
           /\ Range(sample.value) \subseteq Range(tindex)
           /\ StrictlyIncreasing(sample.value)
           /\ Len(sample.value) <= Len(ref_tindex)

\* C5 amended: the sample holds only elements of tindex and is strictly
\* increasing; it is no longer than ref_tindex when tindex has at least two
\* elements, and it is tindex itself when tindex has one element.
C5_Subsequence ==
    (sample # NoCall /\ Len(tindex) >= 1 /\ StrictlyIncreasing(tindex))
        => /\ sample.kind = "return"
           /\ Range(sample.value) \subseteq Range(tindex)
           /\ StrictlyIncreasing(sample.value)
           /\ (Len(tindex) >= 2 => Len(sample.value) <= Len(ref_tindex))
           /\ (Len(tindex) = 1 => sample.value = tindex)

C5_Witness ==
    /\ sample # NoCall
    /\ StrictlyIncreasing(tindex)
    /\ Len(tindex) = 3
    /\ Len(ref_tindex) = 2
    /\ sample.kind = "return"
    /\ Len(sample.value) = 1

C3_InvalidIndexRaises ==
    (sample # NoCall /\ (Len(tindex) = 0 \/ ~StrictlyIncreasing(tindex)))
        => sample.kind = "raise"

\* The timestep of position j of an index te, as the pair of its edges.
Timestep(te, j) == <<Starts(te)[j], te[j]>>

\* The positions of the new index whose timestep overlaps a timestep of the
\* series.
Surviving(s, idx) ==
    {j \in 1..Len(idx) : Mask(Index(s), Timestep(idx, j)[1], Timestep(idx, j)[2]) # {}}

\* C1: when the series and the new index are strictly increasing (with at
\* least two elements each, so that every timestep is defined) and some new
\* timestep overlaps no timestep of the series, the call returns a series
\* shorter than the new index, with a row for each surviving new timestamp
\* and no other, each paired with the weighted value of its own timestep.
C1_DroppedRows ==
    (/\ resampled # NoCall
     /\ Len(series) >= 2
     /\ Len(new_tindex) >= 2
     /\ Surviving(series, new_tindex) # 1..Len(new_tindex))
        => /\ resampled.kind = "return"
           /\ Len(resampled.value) < Len(new_tindex)
           /\ LET kept == SortedSeq(Surviving(series, new_tindex)) IN
              /\ Len(resampled.value) = Len(kept)
              /\ \A k \in 1..Len(kept) :
                    /\ resampled.value[k].t = new_tindex[kept[k]]
                    /\ resampled.value[k].v =
                           WeightedValue(series, Timestep(new_tindex, kept[k])[1],
                                         Timestep(new_tindex, kept[k])[2])

\* C2: for every non-empty strictly increasing series, one of a single row
\* included, resampling the series to its own index returns the same
\* timestamps with exactly the same values.
C2_IdenticalGrid ==
    (resampled # NoCall /\ Len(series) >= 1 /\ new_tindex = Index(series))
        => /\ resampled.kind = "return"
           /\ Len(resampled.value) = Len(series)
           /\ \A k \in 1..Len(series) :
                 /\ resampled.value[k].t = series[k].t
                 /\ resampled.value[k].v = ToFloat(series[k].v)

\* C7: the value of every row of the result lies between the least and the
\* greatest of the values of the series whose timesteps overlap the row's
\* timestep.
C7_WithinMinMax ==
    (resampled # NoCall /\ resampled.kind = "return")
        => \A k \in 1..Len(resampled.value) :
              LET sel == Mask(Index(series), Timestep(new_tindex, k)[1],
                              Timestep(new_tindex, k)[2])
                  row == resampled.value[k].v
              IN  /\ sel # {}
                  /\ \E i \in sel : FLeq(ToFloat(series[i].v), row)
                  /\ \E i \in sel : FLeq(row, ToFloat(series[i].v))

====
